---- MODULE Spec2Model ----
(***************************************************************************)
(* Prompt-Cloner: the App component's state (src/src/App.tsx) and the      *)
(* Analysis Client (src/src/services/geminiService.ts) as a state machine. *)
(*                                                                         *)
(* Strings are sequences of tokens.  A JavaScript value that may be null   *)
(* or undefined is a tagged record: Null, Undefined or Str(s).  The        *)
(* browser's event loop runs one handler at a time, so every handler and   *)
(* every completion callback is one atomic action.                         *)
(***************************************************************************)
EXTENDS Integers, Sequences, FiniteSets, TLC

VARIABLES
    image,      \* useState<string | null>(null): the data URI
    mimeType,   \* useState<string>('')
    analyzing,  \* useState(false)
    result,     \* useState<string | null>(null)
    copied,     \* useState(false)
    decoding,   \* per file, its readAsDataURL calls that have not completed yet
    inflight,   \* pending analyzeImage calls, each with the arguments it was given
    requests,   \* generateContent requests sent so far
    accepted,   \* handleAnalyze invocations that passed the image guard
    timers,     \* pending setTimeout callbacks: remaining seconds, oldest first
    clipboard,  \* what navigator.clipboard.writeText last wrote
    resultFor,  \* history: the image argument of the call that produced result
    lastOp      \* history: the handler or callback that ran last, with its input

vars == <<image, mimeType, analyzing, result, copied, decoding, inflight,
          requests, accepted, timers, clipboard, resultFor, lastOp>>

uiState == <<image, mimeType, analyzing, result, copied>>

(***************************************************************************)
(* Bounds                                                                  *)
(***************************************************************************)
MaxDecodes == 2     \* FileReaders pending at once
MaxCalls == 2       \* accepted analyses in one behaviour
MaxTimers == 2      \* pending copied-timers at once
MaxLen == 6         \* tokens of a result text in SpecCopy

(***************************************************************************)
(* JavaScript values                                                       *)
(***************************************************************************)
Null == [t |-> "null"]
Undefined == [t |-> "undefined"]
Str(s) == [t |-> "string", v |-> s]

\* !v for v a string, null or undefined: the empty string is falsy too
Falsy(v) == v.t # "string" \/ v.v = <<>>

\* String.prototype.startsWith
StartsWith(s, p) == Len(s) >= Len(p) /\ SubSeq(s, 1, Len(p)) = p

ImagePrefix == <<"image", "/">>

(***************************************************************************)
(* Files the user can pick                                                 *)
(***************************************************************************)
File(type, content) == [type |-> type, content |-> content]

ImageFiles == { File(<<"image", "/", "png">>, "iVBO"),
                File(<<"image", "/", "jpeg">>, "9j4A") }

OtherFiles == { File(<<"text", "/", "plain">>, "bm90"),
                File(<<>>, "AAAA") }

Files == ImageFiles \cup OtherFiles

NoFile == [type |-> <<>>, content |-> "none"]

SeqsUpTo(S, n) == UNION { [1..k -> S] : k \in 0..n }

\* What a drop or a file-input change can carry: nothing, one file, or two
\* files with either an image or another file first
FileLists ==
    LET f == CHOOSE f \in ImageFiles : TRUE
        g == CHOOSE g \in OtherFiles : TRUE
    IN  {<<>>} \cup { <<h>> : h \in Files } \cup { <<f, g>>, <<g, f>> }

\* FileReader.readAsDataURL: "data:<type>;base64,<payload>"
ReadAsDataURL(file) == <<"data:">> \o file.type \o <<";base64", ",", file.content>>

\* s.split(sep): the pieces of s between occurrences of sep
RECURSIVE Split(_, _)
Split(s, sep) ==
    IF \A i \in 1..Len(s) : s[i] # sep
    THEN <<s>>
    ELSE LET i == CHOOSE i \in 1..Len(s) :
                      s[i] = sep /\ \A j \in 1..(i - 1) : s[j] # sep
         IN  <<SubSeq(s, 1, i - 1)>> \o Split(SubSeq(s, i + 1, Len(s)), sep)

(***************************************************************************)
(* Result texts and the copy pattern                                       *)
(***************************************************************************)
Fence == "FENCE"   \* the token for three backticks
NL == "\n"
Tags == {"prompt", "text", "markdown"}
Alphabet == {Fence, NL, "a"} \cup Tags

\* The two messages handleAnalyze can store (written here without accents)
ErrorMessage == <<"Erro ao analisar imagem. Verifique sua conexao.">>
EmptyMessage == <<"Nao foi possivel gerar o prompt.">>

NoMatch == [t |-> "null"]
Matched(whole, group) == [t |-> "array", v |-> <<whole, group>>]

\* ([\s\S]*?)\n<fence> from position c: the lazy group takes the fewest tokens
\* k such that a newline and a fence follow it; -1 when there is no such k
CloseAt(s, c) ==
    LET ks == { k \in 0..Len(s) :
                  /\ c + k + 1 <= Len(s)
                  /\ s[c + k] = NL
                  /\ s[c + k + 1] = Fence }
    IN  IF ks = {} THEN -1 ELSE CHOOSE k \in ks : \A m \in ks : k <= m

\* \n([\s\S]*?)\n<fence> from position p, for a match that began at position i
MatchRest(s, i, p) ==
    IF p <= Len(s) /\ s[p] = NL /\ CloseAt(s, p + 1) >= 0
    THEN LET k == CloseAt(s, p + 1)
         IN  Matched(SubSeq(s, i, p + k + 2), SubSeq(s, p + 1, p + k))
    ELSE NoMatch

\* Mutant: the tag is required
MatchAtTagRequired(s, i) ==
    IF s[i] # Fence THEN NoMatch
    ELSE IF i + 1 <= Len(s) /\ s[i + 1] \in Tags
         THEN MatchRest(s, i, i + 2)
         ELSE NoMatch

\* The whole pattern anchored at position i.  (?:prompt|text|markdown)? is
\* greedy: the tag is tried first, and on failure the match is retried
\* without it.
MatchAt(s, i) ==
    IF s[i] # Fence THEN NoMatch
    ELSE IF i + 1 <= Len(s) /\ s[i + 1] \in Tags /\ MatchRest(s, i, i + 2) # NoMatch
         THEN MatchRest(s, i, i + 2)
         ELSE MatchRest(s, i, i + 1)

\* String.prototype.match with a non-global pattern: the leftmost match
RECURSIVE MatchFrom(_, _)
MatchFrom(s, i) ==
    IF i > Len(s) THEN NoMatch
    ELSE IF MatchAt(s, i) # NoMatch THEN MatchAt(s, i)
    ELSE MatchFrom(s, i + 1)

CodeMatch(s) == MatchFrom(s, 1)

\* const textToCopy = codeMatch ? codeMatch[1] : result
TextToCopy(s) ==
    LET codeMatch == CodeMatch(s)
    IN  IF codeMatch.t # "null" THEN codeMatch.v[2] ELSE s

(***************************************************************************)
(* The Analysis Client                                                     *)
(***************************************************************************)
\* The texts generateContent returns in Spec: one with a prompt block, and the
\* empty text
PromptText == <<Fence, "prompt", NL, "a", NL, Fence>>
SampleTexts == { PromptText, <<>> }

\* What generateContent can resolve with: response.text is a string or undefined
Responses == { [text |-> Str(t)] : t \in SampleTexts } \cup { [text |-> Undefined] }

\* What generateContent can reject with
Errors == {"transport", "auth"}

\* The request analyzeImage sends, kept with the image string it was called with
Request(base64Image, mt) ==
    [inlineData |-> [data |-> Split(base64Image, ",")[2], mimeType |-> mt],
     image |-> base64Image]

\* analyzeImage up to its await: one generateContent request
AnalyzeImage(base64Image, mt) ==
    /\ inflight' = Append(inflight, Request(base64Image, mt))
    /\ requests' = requests + 1

\* return response.text
ResponseText(response) == response.text

RemoveAt(s, i) == SubSeq(s, 1, i - 1) \o SubSeq(s, i + 1, Len(s))

(***************************************************************************)
(* Image intake                                                            *)
(***************************************************************************)
Op(op, file, val) == [op |-> op, file |-> file, val |-> val]

\* The number of pending reads
PendingDecodes ==
    Cardinality({ fk \in Files \X (1..MaxDecodes) : fk[2] <= decoding[fk[1]] })

\* Mutant: handleFile without the startsWith guard
HandleFileNoCheck(file) ==
    /\ PendingDecodes < MaxDecodes
    /\ decoding' = [decoding EXCEPT ![file] = @ + 1]
    /\ UNCHANGED <<uiState, resultFor>>

HandleFile(file) ==
    IF ~StartsWith(file.type, ImagePrefix)
    THEN UNCHANGED <<uiState, decoding, resultFor>>
    ELSE /\ PendingDecodes < MaxDecodes
         /\ decoding' = [decoding EXCEPT ![file] = @ + 1]
         /\ UNCHANGED <<uiState, resultFor>>

\* What the handlers below record: handleFile with its file, or no call
Selected(files) ==
    IF Len(files) > 0 THEN Op("handleFile", files[1], Null) ELSE Op("noFile", NoFile, Null)

\* const file = e.dataTransfer.files[0]; if (file) handleFile(file)
OnDrop(files) ==
    /\ IF Len(files) > 0
       THEN HandleFile(files[1])
       ELSE UNCHANGED <<uiState, decoding, resultFor>>
    /\ lastOp' = Selected(files)
    /\ UNCHANGED <<inflight, requests, accepted, timers, clipboard>>

\* e.target.files?.[0] && handleFile(e.target.files[0])
OnChange(files) ==
    /\ IF Len(files) > 0
       THEN HandleFile(files[1])
       ELSE UNCHANGED <<uiState, decoding, resultFor>>
    /\ lastOp' = Selected(files)
    /\ UNCHANGED <<inflight, requests, accepted, timers, clipboard>>

\* Mutant: reader.onload without setResult(null)
ReaderOnloadKeepsResult(file) ==
    /\ image' = Str(ReadAsDataURL(file))
    /\ mimeType' = file.type
    /\ UNCHANGED <<result, resultFor, analyzing, copied>>

\* reader.onload
ReaderOnload(file) ==
    /\ image' = Str(ReadAsDataURL(file))
    /\ mimeType' = file.type
    /\ result' = Null
    /\ resultFor' = Null
    /\ UNCHANGED <<analyzing, copied>>

\* A pending read completes; reads complete in any order
DecodeComplete(file) ==
    /\ decoding[file] > 0
    /\ ReaderOnload(file)
    /\ decoding' = [decoding EXCEPT ![file] = @ - 1]
    /\ lastOp' = Op("onload", file, Null)
    /\ UNCHANGED <<inflight, requests, accepted, timers, clipboard>>

\* A pending read fails; the reader has no onerror handler
DecodeError(file) ==
    /\ decoding[file] > 0
    /\ decoding' = [decoding EXCEPT ![file] = @ - 1]
    /\ lastOp' = Op("onerror", file, Null)
    /\ UNCHANGED <<uiState, resultFor, inflight, requests, accepted, timers, clipboard>>

(***************************************************************************)
(* Analysis                                                                *)
(***************************************************************************)
Bool(b) == [t |-> "boolean", v |-> b]

\* Mutant: the button stays enabled while an analysis is in flight
ButtonDisabledNoImageOnly == Falsy(image)

\* disabled={!image || analyzing}
ButtonDisabled == Falsy(image) \/ analyzing

\* Mutant: handleAnalyze without setAnalyzing(true)
HandleAnalyzeNoFlag ==
    IF Falsy(image)
    THEN UNCHANGED <<uiState, inflight, requests, accepted>>
    ELSE /\ accepted < MaxCalls
         /\ accepted' = accepted + 1
         /\ AnalyzeImage(image.v, mimeType)
         /\ UNCHANGED uiState

\* handleAnalyze up to its await
HandleAnalyze ==
    IF Falsy(image)
    THEN UNCHANGED <<uiState, inflight, requests, accepted>>
    ELSE /\ accepted < MaxCalls
         /\ accepted' = accepted + 1
         /\ analyzing' = TRUE
         /\ AnalyzeImage(image.v, mimeType)
         /\ UNCHANGED <<image, mimeType, result, copied>>

\* A click on the analyze button; a disabled button dispatches no click
ClickAnalyze ==
    /\ IF ButtonDisabled
       THEN UNCHANGED <<uiState, inflight, requests, accepted>>
       ELSE HandleAnalyze
    /\ lastOp' = Op("clickAnalyze", NoFile, Bool(Falsy(image) \/ analyzing))
    /\ UNCHANGED <<decoding, timers, clipboard, resultFor>>

\* Mutant: the stored result is the extracted prompt instead of the whole text
OnFulfilledExtracts(i, promptResult) ==
    /\ result' = IF Falsy(promptResult) THEN Str(EmptyMessage)
                 ELSE Str(TextToCopy(promptResult.v))
    /\ analyzing' = FALSE
    /\ inflight' = RemoveAt(inflight, i)
    /\ resultFor' = Str(inflight[i].image)
    /\ UNCHANGED <<image, mimeType, copied, requests, accepted>>

\* handleAnalyze after the await of the i-th pending call returns promptResult,
\* then the finally block
OnFulfilled(i, promptResult) ==
    /\ result' = IF Falsy(promptResult) THEN Str(EmptyMessage) ELSE promptResult
    /\ analyzing' = FALSE
    /\ inflight' = RemoveAt(inflight, i)
    /\ resultFor' = Str(inflight[i].image)
    /\ UNCHANGED <<image, mimeType, copied, requests, accepted>>

\* Mutant: the catch block shows the error it caught
OnRejectedRaw(i, error) ==
    /\ result' = Str(<<error>>)
    /\ analyzing' = FALSE
    /\ inflight' = RemoveAt(inflight, i)
    /\ resultFor' = Str(inflight[i].image)
    /\ UNCHANGED <<image, mimeType, copied, requests, accepted>>

\* Mutant: the catch block sends the request again instead of giving up
OnRejectedRetry(i, error) ==
    /\ requests' = requests + 1
    /\ UNCHANGED <<uiState, inflight, accepted, resultFor>>

\* handleAnalyze after the await of the i-th pending call throws: the catch
\* block, then the finally block
OnRejected(i, error) ==
    /\ result' = Str(ErrorMessage)
    /\ analyzing' = FALSE
    /\ inflight' = RemoveAt(inflight, i)
    /\ resultFor' = Str(inflight[i].image)
    /\ UNCHANGED <<image, mimeType, copied, requests, accepted>>

\* generateContent resolves for a pending call
Resolve(i, response) ==
    /\ i \in 1..Len(inflight)
    /\ OnFulfilled(i, ResponseText(response))
    /\ lastOp' = Op("resolved", NoFile, ResponseText(response))
    /\ UNCHANGED <<decoding, timers, clipboard>>

\* generateContent rejects for a pending call
Reject(i, error) ==
    /\ i \in 1..Len(inflight)
    /\ OnRejected(i, error)
    /\ lastOp' = Op("rejected", NoFile, Str(<<error>>))
    /\ UNCHANGED <<decoding, timers, clipboard>>

(***************************************************************************)
(* Copy                                                                    *)
(***************************************************************************)
CopiedDelay == 2    \* setTimeout(..., 2000), in seconds

CopyToClipboard ==
    IF Falsy(result)
    THEN UNCHANGED <<clipboard, copied, timers>>
    ELSE /\ Len(timers) < MaxTimers
         /\ clipboard' = Str(TextToCopy(result.v))
         /\ copied' = TRUE
         /\ timers' = Append(timers, CopiedDelay)

\* A click on the copy button, which is rendered only while result is truthy
ClickCopy ==
    /\ IF Falsy(result)
       THEN UNCHANGED <<clipboard, copied, timers>>
       ELSE CopyToClipboard
    /\ lastOp' = Op("clickCopy", NoFile, result)
    /\ UNCHANGED <<image, mimeType, analyzing, result, decoding, inflight,
                   requests, accepted, resultFor>>

\* () => setCopied(false)
TimerCallback == copied' = FALSE

\* The oldest pending timer is due
TimerFire ==
    /\ timers # <<>>
    /\ Head(timers) = 0
    /\ TimerCallback
    /\ timers' = Tail(timers)
    /\ lastOp' = Op("timeout", NoFile, Null)
    /\ UNCHANGED <<image, mimeType, analyzing, result, decoding, inflight,
                   requests, accepted, clipboard, resultFor>>

\* One second passes; a due timer fires before more time passes
Tick ==
    /\ timers # <<>>
    /\ \A k \in 1..Len(timers) : timers[k] > 0
    /\ timers' = [k \in 1..Len(timers) |-> timers[k] - 1]
    /\ UNCHANGED <<uiState, decoding, inflight, requests, accepted, clipboard,
                   resultFor, lastOp>>

(***************************************************************************)
(* Specifications                                                          *)
(***************************************************************************)
Init ==
    /\ image = Null
    /\ mimeType = <<>>
    /\ analyzing = FALSE
    /\ result = Null
    /\ copied = FALSE
    /\ decoding = [f \in Files |-> 0]
    /\ inflight = <<>>
    /\ requests = 0
    /\ accepted = 0
    /\ timers = <<>>
    /\ clipboard = Null
    /\ resultFor = Null
    /\ lastOp = Op("init", NoFile, Null)

Next ==
    \/ \E files \in FileLists : OnDrop(files)
    \/ \E files \in FileLists : OnChange(files)
    \/ \E file \in Files : DecodeComplete(file)
    \/ \E file \in Files : DecodeError(file)
    \/ ClickAnalyze
    \/ \E i \in DOMAIN inflight, response \in Responses : Resolve(i, response)
    \/ \E i \in DOMAIN inflight, error \in Errors : Reject(i, error)
    \/ ClickCopy
    \/ TimerFire
    \/ Tick

Spec == Init /\ [][Next]_vars

(***************************************************************************)
(* The copy pattern over all short result texts                            *)
(***************************************************************************)
Texts == SeqsUpTo(Alphabet, MaxLen)

SomeImage == CHOOSE f \in ImageFiles : TRUE

\* The state after one analysis of a loaded image has returned a non-empty text
InitCopy ==
    /\ image = Str(ReadAsDataURL(SomeImage))
    /\ mimeType = SomeImage.type
    /\ analyzing = FALSE
    /\ result \in { Str(t) : t \in Texts \ {<<>>} }
    /\ copied = FALSE
    /\ decoding = [f \in Files |-> 0]
    /\ inflight = <<>>
    /\ requests = 1
    /\ accepted = 1
    /\ timers = <<>>
    /\ clipboard = Null
    /\ resultFor = image
    /\ lastOp = Op("resolved", NoFile, result)

NextCopy == ClickCopy

SpecCopy == InitCopy /\ [][NextCopy]_vars

(***************************************************************************)
(* Properties                                                              *)
(***************************************************************************)

\* C1: a click on the analyze button in a state with no image loaded, or with
\* an analysis in flight, changes none of image, mimeType, analyzing, result,
\* copied and sends no request; and at most one analysis call is ever pending.
C1_AnalyzeIsNoOpWhenDisabled ==
    [][ /\ (lastOp'.op = "clickAnalyze" /\ (Falsy(image) \/ analyzing))
            => UNCHANGED <<uiState, inflight, requests>>
        /\ Len(inflight') <= 1 ]_vars

\* A click arrived while an analysis was pending and was ignored
C1_Witness ==
    /\ lastOp = Op("clickAnalyze", NoFile, Bool(TRUE))
    /\ analyzing
    /\ Len(inflight) = 1

\* C2: handleFile on a file whose type does not start with image/ starts no
\* read and changes none of image, mimeType, analyzing, result, copied; and a
\* stored image always has a mimeType that starts with image/.
C2_NonImageRejected ==
    [][ /\ (lastOp'.op = "handleFile" /\ ~StartsWith(lastOp'.file.type, ImagePrefix))
            => UNCHANGED <<uiState, decoding>>
        /\ ~Falsy(image') => StartsWith(mimeType', ImagePrefix) ]_vars

\* A non-image file was selected while an image was loaded
C2_Witness ==
    /\ lastOp.op = "handleFile"
    /\ lastOp.file \in OtherFiles
    /\ ~Falsy(image)
    /\ StartsWith(mimeType, ImagePrefix)

\* C3: when the read of an accepted file completes, image is that file's data
\* URI, mimeType is that file's declared type and result is null; if an image
\* was loaded and no analysis was running before, the state after is Ready.
C3_DecodeStoresFile ==
    [][ lastOp'.op = "onload" =>
          /\ image' = Str(ReadAsDataURL(lastOp'.file))
          /\ mimeType' = lastOp'.file.type
          /\ result' = Null
          /\ (~Falsy(image) /\ ~analyzing) => (~Falsy(image') /\ ~analyzing') ]_vars

\* A read completed after an analysis had finished, and cleared its result
C3_Witness ==
    /\ lastOp.op = "onload"
    /\ requests > 0
    /\ inflight = <<>>
    /\ ~analyzing
    /\ result = Null
    /\ image = Str(ReadAsDataURL(lastOp.file))

IsFailure(op) ==
    \/ op.op = "rejected"
    \/ op.op = "resolved" /\ Falsy(op.val)

C7_CopiedForFullWindow ==
    (timers # <<>> /\ timers[Len(timers)] > 0) => copied

\* C8 as stated: at most one read or analysis call is outstanding at a time.
C8_OneOperationOutstanding == PendingDecodes + Len(inflight) <= 1

\* C8, amended: at most one analysis call is outstanding at a time, and
\* analyzing is true while it is; reads are not limited.
C8_OneAnalysisOutstanding ==
    /\ Len(inflight) <= 1
    /\ inflight # <<>> => analyzing

\* Two reads and an analysis call are outstanding together
C8_Witness ==
    /\ PendingDecodes = 2
    /\ Len(inflight) = 1
    /\ analyzing

\* C9: the requests sent are as many as the accepted handleAnalyze
\* invocations, and a request is only ever sent by a click on the analyze
\* button, one per click.
C9_OneRequestPerAcceptedClick ==
    [][ /\ requests' = accepted'
        /\ requests' # requests
             => (lastOp'.op = "clickAnalyze" /\ requests' = requests + 1) ]_vars

\* A second analysis, submitted after a failure, failed too; two requests sent
C9_Witness ==
    /\ lastOp.op = "rejected"
    /\ result = Str(ErrorMessage)
    /\ requests = 2
    /\ accepted = 2
    /\ inflight = <<>>

\* C10 as stated: a result on display was produced for the image now stored.
C10_ResultIsForCurrentImage == ~Falsy(result) => resultFor = image

(***************************************************************************)
(* What a fenced block is, stated without the pattern matcher              *)
(***************************************************************************)
\* An opening fence at position i with one of the three tags and a newline
TaggedOpen(s, i) ==
    i + 2 <= Len(s) /\ s[i] = Fence /\ s[i + 1] \in Tags /\ s[i + 2] = NL

\* An opening fence at position i with no tag before the newline
UntaggedOpen(s, i) ==
    i + 1 <= Len(s) /\ s[i] = Fence /\ s[i + 1] = NL

\* The content s[c..e] (empty when e = c - 1) is followed by a newline and a fence
Closes(s, c, e) ==
    e >= c - 1 /\ e + 2 <= Len(s) /\ s[e + 1] = NL /\ s[e + 2] = Fence

\* Where the content of a block that opens at position i starts
ContentStart(s, i) == IF s[i + 1] = NL THEN i + 2 ELSE i + 3

\* <<i, e>>: a block that opens at i and whose content ends at e
TaggedBlocks(s) ==
    { b \in (1..Len(s)) \X (0..Len(s)) :
        TaggedOpen(s, b[1]) /\ Closes(s, ContentStart(s, b[1]), b[2]) }

UntaggedBlocks(s) ==
    { b \in (1..Len(s)) \X (0..Len(s)) :
        UntaggedOpen(s, b[1]) /\ Closes(s, ContentStart(s, b[1]), b[2]) }

\* The block that opens first, with the shortest content
FirstBlock(B) ==
    CHOOSE b \in B : \A d \in B : b[1] < d[1] \/ (b[1] = d[1] /\ b[2] <= d[2])

Inner(s, B) == LET b == FirstBlock(B) IN SubSeq(s, ContentStart(s, b[1]), b[2])

\* C6 as stated: copyToClipboard writes the content of the first block tagged
\* prompt, text or markdown when the result has one, and the whole result
\* otherwise.
C6_CopiesFirstTaggedBlock ==
    (lastOp.op = "clickCopy" /\ ~Falsy(result)) =>
        clipboard = Str(IF TaggedBlocks(result.v) # {}
                        THEN Inner(result.v, TaggedBlocks(result.v))
                        ELSE result.v)

\* C6, amended: copyToClipboard writes the content of the first block whose
\* opening fence is untagged or tagged prompt, text or markdown, when the
\* result has one, and the whole result otherwise.
C6_CopiesFirstBlockTagOptional ==
    (lastOp.op = "clickCopy" /\ ~Falsy(result)) =>
        LET B == TaggedBlocks(result.v) \cup UntaggedBlocks(result.v)
        IN  clipboard = Str(IF B # {} THEN Inner(result.v, B) ELSE result.v)

\* The content of an untagged block was copied
C6_Witness ==
    /\ lastOp.op = "clickCopy"
    /\ result = Str(<<"a", Fence, NL, "a", NL, Fence>>)
    /\ clipboard = Str(<<"a">>)
    /\ copied

====
